---- MODULE Spec2Model ----
(***************************************************************************)
(* send-carbide: a client that sends one gcode file to Carbide Motion over *)
(* TCP (src/main.go).  Text is modelled as sequences of one-character      *)
(* strings, the connection as byte sequences in flight, and main as a      *)
(* program counter walking through its statements.                         *)
(***************************************************************************)
EXTENDS Naturals, Integers, Sequences, FiniteSets, TLC

----------------------------------------------------------------------------
(* Program constants *)

\* const terminationCharacter = '\x0a'
terminationCharacter == "\n"

\* const messageBufferSize = 128
messageBufferSize == 128

\* bufio.NewReader(conn): the reader's internal buffer (bufio's default size)
ReaderSize == 4096

----------------------------------------------------------------------------
(* Bounds of the model *)

\* capacity of the bufio.Writer around the connection, scaled down from
\* bufio's default so that the modelled headers and files fill it
WriterSize == 11

\* how many times the file on disk changes behind the program's back
MaxFileChanges == 1

----------------------------------------------------------------------------
(* Text helpers: package strings and fmt, as far as main.go uses them *)

LowerLetters == <<"a","b","c","d","e","f","g","h","i","j","k","l","m",
                  "n","o","p","q","r","s","t","u","v","w","x","y","z">>
UpperLetters == <<"A","B","C","D","E","F","G","H","I","J","K","L","M",
                  "N","O","P","Q","R","S","T","U","V","W","X","Y","Z">>
Digits == <<"0","1","2","3","4","5","6","7","8","9">>

\* unicode.IsSpace on the ASCII range, as strings.TrimSpace uses it
SpaceChars == {" ", "\t", "\n", "\r", "\f"}

UpperChar(c) ==
    IF \E i \in 1..26 : LowerLetters[i] = c
    THEN UpperLetters[CHOOSE i \in 1..26 : LowerLetters[i] = c]
    ELSE c

LowerChar(c) ==
    IF \E i \in 1..26 : UpperLetters[i] = c
    THEN LowerLetters[CHOOSE i \in 1..26 : UpperLetters[i] = c]
    ELSE c

\* strings.ToUpper
ToUpper(s) == [i \in 1..Len(s) |-> UpperChar(s[i])]

\* strings.ToLower
ToLower(s) == [i \in 1..Len(s) |-> LowerChar(s[i])]

\* strings.TrimSpace: drop leading and trailing white space
TrimSpace(s) ==
    LET keep == {i \in 1..Len(s) : s[i] \notin SpaceChars}
    IN  IF keep = {} THEN <<>>
        ELSE LET lo == CHOOSE i \in keep : \A j \in keep : i <= j
                 hi == CHOOSE i \in keep : \A j \in keep : j <= i
             IN  SubSeq(s, lo, hi)

\* strings.Split(s, sep) for a one-character separator: the pieces between
\* consecutive separators, empty pieces included
RECURSIVE Split(_, _)
Split(s, sep) ==
    IF \A i \in 1..Len(s) : s[i] # sep THEN <<s>>
    ELSE LET k == CHOOSE i \in 1..Len(s) :
                      s[i] = sep /\ \A j \in 1..(i-1) : s[j] # sep
         IN  <<SubSeq(s, 1, k-1)>> \o Split(SubSeq(s, k+1, Len(s)), sep)

\* fmt's %d of a non-negative integer
RECURSIVE Itoa(_)
Itoa(n) == IF n < 10 THEN <<Digits[n+1]>>
           ELSE Itoa(n \div 10) \o <<Digits[(n % 10) + 1]>>

\* the literals of main.go
StrInit     == <<"i","n","i","t">>
StrStateKey == <<"S","T","A","T","E",":">>
StrGcodeAck == <<"G","C","O","D","E","_","A","C","K">>
StrGcode    == <<"G","C","O","D","E",":"," ">>


\* strconv-style reading of a decimal number, the inverse of %d
RECURSIVE Atoi(_)
Atoi(s) ==
    IF Len(s) = 0 THEN 0
    ELSE 10 * Atoi(SubSeq(s, 1, Len(s)-1))
         + ((CHOOSE i \in 1..10 : Digits[i] = s[Len(s)]) - 1)

\* index of the first c in s, 0 when there is none
IndexOf(s, c) ==
    IF \E i \in 1..Len(s) : s[i] = c
    THEN CHOOSE i \in 1..Len(s) : s[i] = c /\ \A j \in 1..(i-1) : s[j] # c
    ELSE 0

\* index of the last c in s, 0 when there is none
LastIndexOf(s, c) ==
    IF \E i \in 1..Len(s) : s[i] = c
    THEN CHOOSE i \in 1..Len(s) : s[i] = c /\ \A j \in (i+1)..Len(s) : s[j] # c
    ELSE 0

Min(a, b) == IF a < b THEN a ELSE b

----------------------------------------------------------------------------
(* readMessage and getState, as functions of what the stream hands them *)

\* ScanFrame with the loop's break placed after the append: the termination
\* character ends up in the frame
ScanFrameKeepsTerminator(data) ==
    LET k == IndexOf(data, terminationCharacter)
    IN  IF k = 0 THEN data ELSE SubSeq(data, 1, k)

\* readMessage, lines 132-138: the bytes of buffer[0:n] before the first
\* termination character, or all n of them when there is none
ScanFrame(data) ==
    LET k == IndexOf(data, terminationCharacter)
    IN  IF k = 0 THEN data ELSE SubSeq(data, 1, k-1)

\* readMessageOf with > for >= in the size check
readMessageOfOffByOne(data) ==
    LET k == IndexOf(data, terminationCharacter)
        outputBuffer == IF k = 0 THEN data ELSE SubSeq(data, 1, k-1)
    IN  IF Len(outputBuffer) > messageBufferSize
        THEN [msg |-> <<>>, err |-> "oversized message"]
        ELSE [msg |-> outputBuffer, err |-> "nil"]

\* readMessageOf that cuts a long line down to what fits instead of
\* refusing it
readMessageOfTruncates(data) ==
    LET outputBuffer == ScanFrame(data)
    IN  IF Len(outputBuffer) >= messageBufferSize
        THEN [msg |-> SubSeq(outputBuffer, 1, messageBufferSize - 1),
              err |-> "nil"]
        ELSE [msg |-> outputBuffer, err |-> "nil"]

\* readMessage, lines 132-143, given the n bytes r.Read put into buffer
readMessageOf(data) ==
    LET outputBuffer == ScanFrame(data)
    IN  IF Len(outputBuffer) >= messageBufferSize
        THEN [msg |-> <<>>, err |-> "oversized message"]
        ELSE [msg |-> outputBuffer, err |-> "nil"]

\* parseState without strings.TrimSpace
parseStateNoTrim(statusLine) ==
    LET tokens == Split(statusLine, " ")
    IN  IF Len(tokens) # 2
        THEN [state |-> <<>>, err |-> "invalid status message",
              log |-> "unexpected number of tokens"]
        ELSE IF ToUpper(tokens[1]) # StrStateKey
        THEN [state |-> <<>>, err |-> "invalid status message",
              log |-> "unexpected message key"]
        ELSE [state |-> ToLower(tokens[2]), err |-> "nil", log |-> "nil"]

\* parseState with < 2 for != 2 in the token count check
parseStateAtLeastTwo(statusLine) ==
    LET tokens == Split(statusLine, " ")
    IN  IF Len(tokens) < 2
        THEN [state |-> <<>>, err |-> "invalid status message",
              log |-> "unexpected number of tokens"]
        ELSE IF ToUpper(tokens[1]) # StrStateKey
        THEN [state |-> <<>>, err |-> "invalid status message",
              log |-> "unexpected message key"]
        ELSE [state |-> ToLower(TrimSpace(tokens[2])), err |-> "nil",
              log |-> "nil"]

\* getState, lines 154-163, given the status line readMessage returned
parseState(statusLine) ==
    LET tokens == Split(statusLine, " ")
    IN  IF Len(tokens) # 2
        THEN [state |-> <<>>, err |-> "invalid status message",
              log |-> "unexpected number of tokens"]
        ELSE IF ToUpper(tokens[1]) # StrStateKey
        THEN [state |-> <<>>, err |-> "invalid status message",
              log |-> "unexpected message key"]
        ELSE [state |-> ToLower(TrimSpace(tokens[2])), err |-> "nil",
              log |-> "nil"]

\* StateIsInit that only asks for some state
StateIsAny(st) == st # <<>>

\* main, line 84: the only state a transfer may start in
StateIsInit(st) == st = StrInit

\* AckMatches comparing without regard to letter case
AckMatchesAnyCase(msg) == ToUpper(msg) = StrGcodeAck

\* main, line 117: the acknowledgement main accepts
AckMatches(msg) == msg = StrGcodeAck

\* main, line 89: fmt.Sprintf("GCODE: %s:%d\n", inputFile, fileInfo.Size())
HeaderOf(path, size) ==
    StrGcode \o path \o <<":">> \o Itoa(size) \o <<terminationCharacter>>

----------------------------------------------------------------------------
(* bufio.Writer around the connection: what each call hands to the         *)
(* connection (conn) and what it keeps buffered (buf)                      *)

\* w.Write(p), line 91
WriterWrite(buf, p) ==
    IF Len(p) <= WriterSize - Len(buf)
    THEN [conn |-> <<>>, buf |-> buf \o p]
    ELSE IF Len(buf) = 0
    THEN [conn |-> p, buf |-> <<>>]
    ELSE LET k    == WriterSize - Len(buf)
             rest == SubSeq(p, k+1, Len(p))
         IN  IF Len(rest) > WriterSize
             THEN [conn |-> buf \o p, buf |-> <<>>]
             ELSE [conn |-> buf \o SubSeq(p, 1, k), buf |-> rest]

\* A copy that bypasses the buffer and loses what was buffered before it.
WriterReadFromDropsBuffered(buf, data) ==
    IF 0 < Len(buf) /\ Len(buf) + Len(data) < WriterSize
    THEN [conn |-> <<>>, buf |-> buf \o data]
    ELSE [conn |-> data, buf |-> <<>>]

\* io.Copy(w, input), line 97: w.ReadFrom(input); the file's bytes join the
\* buffer while they fit and otherwise go to the connection in order
WriterReadFrom(buf, data) ==
    IF 0 < Len(buf) /\ Len(buf) + Len(data) < WriterSize
    THEN [conn |-> <<>>, buf |-> buf \o data]
    ELSE [conn |-> buf \o data, buf |-> <<>>]

\* w.WriteByte(c), line 104
WriterWriteByte(buf, c) ==
    IF Len(buf) >= WriterSize
    THEN [conn |-> buf, buf |-> <<c>>]
    ELSE [conn |-> <<>>, buf |-> Append(buf, c)]

\* w.Flush(), line 110
WriterFlush(buf) == [conn |-> buf, buf |-> <<>>]

----------------------------------------------------------------------------
(* Inputs *)

\* -file: the path given on the command line
Paths == { <<"a">> }

\* what the file holds when the program starts
Files == { <<"G","1","\n">>,
           <<"G","0"," ","X","1","\n","M","3","0","\n">> }

\* n copies of the byte c
Fill(c, n) == [i \in 1..n |-> c]

\* the status line of a server that is ready
InitLine == <<"S","T","A","T","E",":"," ","i","n","i","t","\n">>

\* the acknowledgement of a server that took the file
AckLine == <<"G","C","O","D","E","_","A","C","K","\n">>

\* what the server may send when the client connects: the ready line in
\* two spellings, a busy line, lines with a misplaced space or no
\* terminator, the acknowledgement sent early, and a line longer than a frame
StatusLines ==
    { InitLine,
      <<"s","t","a","t","e",":"," ","I","N","I","T","\r","\n">>,
      <<"S","T","A","T","E",":"," ","r","u","n","n","i","n","g","\n">>,
      <<"S","T","A","T","E",":"," ","i","n","i","t"," ","\n">>,
      <<"S","T","A","T","E",":"," ","i","n","i","t">>,
      InitLine \o AckLine,
      <<"S","T","A","T","E",":"," ","i","n","i","t">> \o Fill("x", 119) }

\* pieces the inputs of getState are put together from
StatusKeys   == { <<"S","T","A","T","E",":">>, <<"s","t","a","t","e",":">>,
                  <<"S","t","A","t","E",":">>, <<"S","T","A","T","E">>,
                  <<"H","E","L","L","O",":">> }
StatusSeps   == { <<>>, <<" ">> }
StatusPads   == { <<>>, <<" ">>, <<"\t">>, <<"\r">> }
StatusTokens == { <<"i","n","i","t">>, <<"I","N","I","T">>,
                  <<"r","u","n","n","i","n","g">>, <<"i","n"," ","i","t">> }

\* inputs as long as a frame may be and longer, with and without a
\* terminator
LongInputs == { <<"S","T","A","T","E",":"," ">> \o Fill("x", n) \o t :
                  n \in {119, 120, 121, 122, 123},
                  t \in { <<>>, <<"\n">>, <<"\n","x">> } }

\* the streams readMessage and getState are applied to on their own
FnInputs ==
    { k \o s \o p \o t \o q \o e :
        k \in StatusKeys, s \in StatusSeps, p \in StatusPads,
        t \in StatusTokens, q \in StatusPads,
        e \in { <<"\n">>, <<>>, <<"\n","x","\n">> } }
    \cup LongInputs
    \cup { <<"\n">>, <<"x">>, InitLine \o Fill("x", 116) \o AckLine }

\* what the server may answer once it holds the payload
AckLines == { <<"G","C","O","D","E","_","A","C","K","\n">>,
              <<"g","c","o","d","e","_","a","c","k","\n">>,
              <<"G","C","O","D","E","_","A","C","K">>,
              <<"G","C","O","D","E","_","A","C","K"," ","\n">>,
              <<"D","O","N","E","\n">> }

----------------------------------------------------------------------------
(* State *)

VARIABLES
    pc,          \* main's position: the statement it executes next
    outcome,     \* "none" while running, then "Done", "Aborted" or "Fatal"
    exitCode,    \* the process's exit status, -1 while running
    inputFile,   \* the -file flag
    file,        \* the bytes of the file on disk
    fileChanges, \* how often the file changed since the program started
    statSize,    \* fileInfo.Size(), -1 before os.Stat
    fileOpen,    \* input is open
    connOpen,    \* conn is open
    connBroken,  \* the connection was reset: its reads and writes fail
    srvOut,      \* bytes the server sent that the client has not read yet
    rbuf,        \* bytes held in r, the bufio.Reader
    wbuf,        \* bytes held in w, the bufio.Writer
    wire,        \* bytes the client handed to the connection
    srvStatus,   \* "none", "init" (the server sent InitLine) or "other"
    srvReply,    \* "none", "ack" (the server sent AckLine) or "other"
    faulted,     \* a connection reset or a file read error happened
    reads,       \* number of readMessage calls made
    lastAvail,   \* the stream as the last readMessage call found it
    lastMsg,     \* the message the last readMessage call returned
    lastErr,     \* the error the last readMessage call returned
    state,       \* the state getState returned
    stateErr,    \* the error getState returned
    log,         \* error and info events given to zap, in order
    trace        \* the protocol steps that succeeded, in order

vars == << pc, outcome, exitCode, inputFile, file, fileChanges, statSize,
           fileOpen, connOpen, connBroken, srvOut, rbuf, wbuf, wire,
           srvStatus, srvReply, faulted, reads, lastAvail, lastMsg, lastErr,
           state, stateErr, log, trace >>

\* variables of the program proper
progVars == << pc, outcome, exitCode, statSize, fileOpen, connOpen, rbuf,
               wbuf, wire, reads, lastAvail, lastMsg, lastErr, state,
               stateErr, log, trace >>

Init ==
    /\ pc = "resolve" /\ outcome = "none" /\ exitCode = -1
    /\ inputFile \in Paths /\ file \in Files /\ fileChanges = 0
    /\ statSize = -1 /\ fileOpen = FALSE /\ connOpen = FALSE
    /\ connBroken = FALSE
    /\ srvOut = <<>> /\ rbuf = <<>> /\ wbuf = <<>>
    /\ wire = <<>>
    /\ srvStatus = "none" /\ srvReply = "none" /\ faulted = FALSE
    /\ reads = 0 /\ lastAvail = <<>> /\ lastMsg = <<>> /\ lastErr = "none"
    /\ state = <<>> /\ stateErr = "none"
    /\ log = <<>> /\ trace = <<>>

ErrorEvent(msg) == [level |-> "error", msg |-> msg]
InfoEvent(msg)  == [level |-> "info", msg |-> msg]

----------------------------------------------------------------------------
(* Ways main ends *)

\* Return without the deferred conn.Close()
ReturnLeavingConn(out) ==
    /\ pc' = "exited" /\ outcome' = out /\ exitCode' = 0
    /\ connOpen' = connOpen
    /\ fileOpen' = FALSE

\* Return that, after a failure, goes back to reading the status instead
\* of leaving main
ReturnRetrying(out) ==
    IF out = "Aborted"
    THEN /\ pc' = "getState" /\ outcome' = out
         /\ UNCHANGED << exitCode, connOpen, fileOpen >>
    ELSE /\ pc' = "exited" /\ outcome' = out /\ exitCode' = 0
         /\ connOpen' = FALSE
         /\ fileOpen' = FALSE

\* return from main: the deferred conn.Close() and input.Close() run and
\* the process ends with status 0
Return(out) ==
    /\ pc' = "exited" /\ outcome' = out /\ exitCode' = 0
    /\ connOpen' = FALSE
    /\ fileOpen' = FALSE

\* zap.L().Fatal: logs and calls os.Exit(1); deferred calls do not run
Fatal ==
    /\ pc' = "exited" /\ outcome' = "Fatal" /\ exitCode' = 1
    /\ UNCHANGED << connOpen, fileOpen >>

----------------------------------------------------------------------------
(* The stream main reads from: r = bufio.NewReader(conn) *)

\* A read with a deadline: it returns whether or not anything is there.
CanReadWithDeadline == TRUE

\* r.Read blocks until r holds bytes, bytes of the server have arrived, or
\* the connection fails; no deadline is set on conn
CanRead == rbuf # <<>> \/ srvOut # <<>> \/ connBroken

\* how many of the server's unread bytes can have arrived when a read of
\* the connection returns: any number from one byte to all of them (none
\* when the server has sent none)
Arrivals == IF rbuf = <<>> /\ ~connBroken /\ srvOut # <<>>
            THEN 1..Len(srvOut)
            ELSE {0}

\* r.Read(buffer), line 127, when `arrived` of the server's bytes are there.
\* An empty r is refilled by one read of the connection, of up to
\* ReaderSize bytes; buffer then takes up to messageBufferSize of r's bytes
\* and the rest stay in r.
\* A reader that hands the bytes after the first terminator back to the
\* stream instead of dropping them with the message buffer.
ReadCallKeepsRest(arrived) ==
    IF rbuf = <<>> /\ connBroken
    THEN [err |-> "read error", data |-> <<>>, avail |-> <<>>,
          rbuf |-> rbuf, srvOut |-> srvOut]
    ELSE LET took   == IF rbuf = <<>> THEN Min(ReaderSize, arrived) ELSE 0
             filled == IF rbuf = <<>> THEN SubSeq(srvOut, 1, took) ELSE rbuf
             n      == Min(messageBufferSize, Len(filled))
             data   == SubSeq(filled, 1, n)
             used   == IF IndexOf(data, terminationCharacter) = 0
                       THEN n
                       ELSE IndexOf(data, terminationCharacter)
         IN  [err |-> "nil", data |-> data,
              avail |-> filled,
              rbuf |-> SubSeq(filled, used+1, Len(filled)),
              srvOut |-> SubSeq(srvOut, took+1, Len(srvOut))]

ReadCall(arrived) ==
    IF rbuf = <<>> /\ connBroken
    THEN [err |-> "read error", data |-> <<>>, avail |-> <<>>,
          rbuf |-> rbuf, srvOut |-> srvOut]
    ELSE LET took   == IF rbuf = <<>> THEN Min(ReaderSize, arrived) ELSE 0
             filled == IF rbuf = <<>> THEN SubSeq(srvOut, 1, took) ELSE rbuf
             n      == Min(messageBufferSize, Len(filled))
         IN  [err |-> "nil", data |-> SubSeq(filled, 1, n),
              avail |-> filled,
              rbuf |-> SubSeq(filled, n+1, Len(filled)),
              srvOut |-> SubSeq(srvOut, took+1, Len(srvOut))]

\* readMessage that returns its errors without logging them
readMessageEventsSilent(err) == <<>>

\* readMessage, lines 129 and 140: the error event it logs before it
\* returns an error
readMessageEvents(err) ==
    IF err # "nil" THEN << ErrorEvent("failed to read message") >> ELSE <<>>

\* readMessage(r), lines 124-144: one r.Read, then the scan
readMessage(arrived) ==
    LET rd == ReadCall(arrived)
    IN  IF rd.err # "nil"
        THEN [msg |-> <<>>, err |-> rd.err, rd |-> rd]
        ELSE [msg |-> readMessageOf(rd.data).msg,
              err |-> readMessageOf(rd.data).err, rd |-> rd]

\* getState(r), lines 148-164
getState(arrived) ==
    LET rm == readMessage(arrived)
    IN  IF rm.err # "nil"
        THEN [state |-> <<>>, err |-> rm.err,
              log |-> "failed to read message", rm |-> rm]
        ELSE [state |-> parseState(rm.msg).state,
              err |-> parseState(rm.msg).err,
              log |-> parseState(rm.msg).log, rm |-> rm]

\* a write the bufio.Writer passes to the connection fails on a broken one
ConnWriteFails(w) == w.conn # <<>> /\ connBroken

----------------------------------------------------------------------------
(* main, statement by statement *)

\* lines 49-53: net.ResolveTCPAddr
ResolveAddr ==
    /\ pc = "resolve"
    /\ \E ok \in BOOLEAN :
         IF ok THEN /\ pc' = "stat"
                    /\ UNCHANGED << outcome, exitCode, connOpen, fileOpen >>
               ELSE Fatal
    /\ UNCHANGED << inputFile, file, fileChanges, statSize, connBroken,
                    srvOut, rbuf, wbuf, wire, srvStatus, srvReply,
                    faulted, reads, lastAvail, lastMsg, lastErr, state,
                    stateErr, log, trace >>

\* lines 55-59: os.Stat
StatFile ==
    /\ pc = "stat"
    /\ \E ok \in BOOLEAN :
         IF ok THEN /\ pc' = "open"
                    /\ statSize' = Len(file)
                    /\ UNCHANGED << outcome, exitCode, connOpen, fileOpen >>
               ELSE Fatal /\ UNCHANGED statSize
    /\ UNCHANGED << inputFile, file, fileChanges, connBroken,
                    srvOut, rbuf, wbuf, wire, srvStatus, srvReply,
                    faulted, reads, lastAvail, lastMsg, lastErr, state,
                    stateErr, log, trace >>

\* lines 60-67: os.Open, defer input.Close()
OpenFile ==
    /\ pc = "open"
    /\ \E ok \in BOOLEAN :
         IF ok THEN /\ pc' = "dial"
                    /\ fileOpen' = TRUE
                    /\ log' = Append(log, InfoEvent("sending gcode file"))
                    /\ UNCHANGED << outcome, exitCode, connOpen >>
               ELSE Fatal /\ UNCHANGED log
    /\ UNCHANGED << inputFile, file, fileChanges, statSize, connBroken,
                    srvOut, rbuf, wbuf, wire, srvStatus, srvReply,
                    faulted, reads, lastAvail, lastMsg, lastErr, state,
                    stateErr, trace >>

\* lines 69-77: net.DialTCP, defer conn.Close(); the server that accepts
\* the connection sends its status line, or nothing
Dial ==
    /\ pc = "dial"
    /\ \/ /\ log' = Append(log, ErrorEvent("failed to connect to server"))
          /\ Return("Aborted")
          /\ UNCHANGED << srvOut, srvStatus >>
       \/ \E line \in StatusLines \cup { <<>> } :
            /\ pc' = "getState"
            /\ connOpen' = TRUE
            /\ srvOut' = line
            /\ srvStatus' = IF line = InitLine THEN "init" ELSE "other"
            /\ UNCHANGED << outcome, exitCode, fileOpen, log >>
    /\ UNCHANGED << inputFile, file, fileChanges, statSize, connBroken,
                    rbuf, wbuf, wire, srvReply,
                    faulted, reads, lastAvail, lastMsg, lastErr, state,
                    stateErr, trace >>

\* lines 79-82: state, err := getState(r); return on error
GetState ==
    /\ pc = "getState"
    /\ CanRead
    /\ \E arrived \in Arrivals : LET gs == getState(arrived)
       IN  /\ rbuf' = gs.rm.rd.rbuf
           /\ srvOut' = gs.rm.rd.srvOut
           /\ reads' = reads + 1
           /\ lastAvail' = gs.rm.rd.avail
           /\ lastMsg' = gs.rm.msg
           /\ lastErr' = gs.rm.err
           /\ state' = gs.state
           /\ stateErr' = gs.err
           /\ IF gs.err # "nil"
              THEN /\ log' = Append(log, ErrorEvent(gs.log))
                   /\ Return("Aborted")
                   /\ UNCHANGED trace
              ELSE /\ pc' = "checkState"
                   /\ trace' = Append(trace, "status")
                   /\ UNCHANGED << outcome, exitCode, connOpen, fileOpen, log >>
    /\ UNCHANGED << inputFile, file, fileChanges, statSize, connBroken,
                    wbuf, wire, srvStatus, srvReply, faulted >>

\* lines 83-87: if state != "init" { ...; return }
CheckState ==
    /\ pc = "checkState"
    /\ IF StateIsInit(state)
       THEN /\ pc' = "header"
            /\ UNCHANGED << outcome, exitCode, connOpen, fileOpen, log >>
       ELSE /\ log' = Append(log,
                        ErrorEvent("cannot start outside of init state"))
            /\ Return("Aborted")
    /\ UNCHANGED << inputFile, file, fileChanges, statSize, connBroken,
                    srvOut, rbuf, wbuf, wire, srvStatus, srvReply,
                    faulted, reads, lastAvail, lastMsg, lastErr, state,
                    stateErr, trace >>

\* lines 88-94: w.Write([]byte(header))
WriteHeader ==
    /\ pc = "header"
    /\ LET w == WriterWrite(wbuf, HeaderOf(inputFile, statSize))
       IN  IF ConnWriteFails(w)
           THEN /\ log' = Append(log, ErrorEvent("failed sending header"))
                /\ Return("Aborted")
                /\ UNCHANGED << wbuf, wire, trace >>
           ELSE /\ wbuf' = w.buf
                /\ wire' = wire \o w.conn
                /\ pc' = "copy"
                /\ trace' = Append(trace, "header")
                /\ UNCHANGED << outcome, exitCode, connOpen, fileOpen, log >>
    /\ UNCHANGED << inputFile, file, fileChanges, statSize, connBroken,
                    srvOut, rbuf, srvStatus, srvReply,
                    faulted, reads, lastAvail, lastMsg, lastErr, state,
                    stateErr >>

\* lines 95-102: io.Copy(w, input) copies the file as it is now, up to its
\* end or up to a read error after n bytes
CopyFile ==
    /\ pc = "copy"
    /\ \E n \in 0..Len(file), readErr \in BOOLEAN :
         /\ readErr \/ n = Len(file)
         /\ LET w == WriterReadFrom(wbuf, SubSeq(file, 1, n))
            IN  /\ wbuf' = IF ConnWriteFails(w) THEN wbuf ELSE w.buf
                /\ wire' = IF ConnWriteFails(w) THEN wire ELSE wire \o w.conn
                /\ faulted' = (faulted \/ readErr)
                /\ IF ConnWriteFails(w) \/ readErr
                   THEN /\ log' = Append(log,
                               ErrorEvent("failed sending file over connection"))
                        /\ Return("Aborted")
                        /\ UNCHANGED trace
                   ELSE /\ pc' = "term"
                        /\ trace' = Append(trace, "copy")
                        /\ UNCHANGED << outcome, exitCode, connOpen,
                                        fileOpen, log >>
    /\ UNCHANGED << inputFile, file, fileChanges, statSize, connBroken,
                    srvOut, rbuf, srvStatus, srvReply,
                    reads, lastAvail, lastMsg, lastErr, state, stateErr >>

\* WriteTerminator that goes on to the acknowledgement read, the flush
\* left out
WriteTerminatorSkipsFlush ==
    /\ pc = "term"
    /\ LET w == WriterWriteByte(wbuf, terminationCharacter)
       IN  IF ConnWriteFails(w)
           THEN /\ log' = Append(log,
                            ErrorEvent("failed sending termination signal"))
                /\ Return("Aborted")
                /\ UNCHANGED << wbuf, wire, trace >>
           ELSE /\ wbuf' = w.buf
                /\ wire' = wire \o w.conn
                /\ pc' = "ack"
                /\ trace' = Append(trace, "term")
                /\ UNCHANGED << outcome, exitCode, connOpen, fileOpen, log >>
    /\ UNCHANGED << inputFile, file, fileChanges, statSize, connBroken,
                    srvOut, rbuf, srvStatus, srvReply,
                    faulted, reads, lastAvail, lastMsg, lastErr, state,
                    stateErr >>

\* lines 103-107: w.WriteByte(terminationCharacter)
WriteTerminator ==
    /\ pc = "term"
    /\ LET w == WriterWriteByte(wbuf, terminationCharacter)
       IN  IF ConnWriteFails(w)
           THEN /\ log' = Append(log,
                            ErrorEvent("failed sending termination signal"))
                /\ Return("Aborted")
                /\ UNCHANGED << wbuf, wire, trace >>
           ELSE /\ wbuf' = w.buf
                /\ wire' = wire \o w.conn
                /\ pc' = "flush"
                /\ trace' = Append(trace, "term")
                /\ UNCHANGED << outcome, exitCode, connOpen, fileOpen, log >>
    /\ UNCHANGED << inputFile, file, fileChanges, statSize, connBroken,
                    srvOut, rbuf, srvStatus, srvReply,
                    faulted, reads, lastAvail, lastMsg, lastErr, state,
                    stateErr >>

\* lines 108-113: w.Flush()
Flush ==
    /\ pc = "flush"
    /\ LET w == WriterFlush(wbuf)
       IN  IF ConnWriteFails(w)
           THEN /\ log' = Append(log, ErrorEvent("failed flushing connection"))
                /\ Return("Aborted")
                /\ UNCHANGED << wbuf, wire, trace >>
           ELSE /\ wbuf' = w.buf
                /\ wire' = wire \o w.conn
                /\ pc' = "ack"
                /\ trace' = Append(trace, "flush")
                /\ UNCHANGED << outcome, exitCode, connOpen, fileOpen, log >>
    /\ UNCHANGED << inputFile, file, fileChanges, statSize, connBroken,
                    srvOut, rbuf, srvStatus, srvReply,
                    faulted, reads, lastAvail, lastMsg, lastErr, state,
                    stateErr >>

\* lines 114-121: msg, err := readMessage(r); compare with "GCODE_ACK"
ReadAck ==
    /\ pc = "ack"
    /\ CanRead
    /\ \E arrived \in Arrivals : LET rm == readMessage(arrived)
       IN  /\ rbuf' = rm.rd.rbuf
           /\ srvOut' = rm.rd.srvOut
           /\ reads' = reads + 1
           /\ lastAvail' = rm.rd.avail
           /\ lastMsg' = rm.msg
           /\ lastErr' = rm.err
           /\ IF rm.err # "nil"
              THEN /\ log' = log \o readMessageEvents(rm.err)
                   /\ Return("Aborted")
                   /\ UNCHANGED trace
              ELSE IF ~AckMatches(rm.msg)
              THEN /\ log' = Append(log, ErrorEvent("did not receive ack"))
                   /\ Return("Aborted")
                   /\ UNCHANGED trace
              ELSE /\ log' = Append(log, InfoEvent("done"))
                   /\ Return("Done")
                   /\ trace' = Append(trace, "ack")
    /\ UNCHANGED << inputFile, file, fileChanges, statSize, connBroken,
                    wbuf, wire, srvStatus, srvReply, faulted,
                    state, stateErr >>

----------------------------------------------------------------------------
(* The world around main: the file system, the network and the server *)

\* the file is appended to or truncated by someone else once main has
\* taken its size
FileChanged ==
    /\ pc \in {"open", "dial", "getState", "checkState", "header", "copy"}
    /\ fileChanges < MaxFileChanges
    /\ fileChanges' = fileChanges + 1
    /\ \/ file' = Append(file, "x")
       \/ file # <<>> /\ file' = <<>>
    /\ UNCHANGED << inputFile, connBroken, srvOut, srvStatus,
                    srvReply, faulted, progVars >>

\* the connection is reset
ConnReset ==
    /\ connOpen /\ ~connBroken
    /\ connBroken' = TRUE
    /\ faulted' = TRUE
    /\ UNCHANGED << inputFile, file, fileChanges, srvOut, srvStatus,
                    srvReply, progVars >>

\* the size the header on the wire declares, -1 while no header line is
\* complete
DeclaredSize(bytes) ==
    LET k == IndexOf(bytes, terminationCharacter)
    IN  IF k = 0 THEN -1
        ELSE LET hdr == SubSeq(bytes, 1, k-1)
             IN  Atoi(SubSeq(hdr, LastIndexOf(hdr, ":") + 1, Len(hdr)))

\* the server holds the header line, as many payload bytes as it declares
\* and one more byte
ServerHasAll ==
    /\ DeclaredSize(wire) >= 0
    /\ Len(wire) >= IndexOf(wire, terminationCharacter)
                      + DeclaredSize(wire) + 1

\* the server answers the transfer
ServerReply ==
    /\ connOpen /\ ~connBroken
    /\ srvReply = "none"
    /\ ServerHasAll
    /\ \E a \in AckLines :
         /\ srvOut' = srvOut \o a
         /\ srvReply' = IF a = AckLine THEN "ack" ELSE "other"
    /\ UNCHANGED << inputFile, file, fileChanges, connBroken,
                    srvStatus, faulted, progVars >>

----------------------------------------------------------------------------

Next ==
    \/ ResolveAddr \/ StatFile \/ OpenFile \/ Dial
    \/ GetState \/ CheckState \/ WriteHeader \/ CopyFile
    \/ WriteTerminator \/ Flush \/ ReadAck
    \/ FileChanged \/ ConnReset \/ ServerReply

Spec == Init /\ [][Next]_vars

----------------------------------------------------------------------------
(* readMessage and getState on their own: each is called once on a reader  *)
(* that holds one of FnInputs, all of it there to be read                  *)

FnInit ==
    /\ pc = "call" /\ outcome = "none" /\ exitCode = -1
    /\ inputFile = <<"a">> /\ file = <<>> /\ fileChanges = 0
    /\ statSize = -1 /\ fileOpen = FALSE /\ connOpen = FALSE
    /\ connBroken \in BOOLEAN
    /\ srvOut \in FnInputs /\ rbuf = <<>> /\ wbuf = <<>>
    /\ wire = <<>>
    /\ srvStatus = "none" /\ srvReply = "none" /\ faulted = connBroken
    /\ reads = 0 /\ lastAvail = <<>> /\ lastMsg = <<>> /\ lastErr = "none"
    /\ state = <<>> /\ stateErr = "none"
    /\ log = <<>> /\ trace = <<>>

\* msg, err := readMessage(r)
CallReadMessage ==
    /\ pc = "call"
    /\ CanRead
    /\ LET rm == readMessage(Len(srvOut))
       IN  /\ rbuf' = rm.rd.rbuf
           /\ srvOut' = rm.rd.srvOut
           /\ reads' = reads + 1
           /\ lastAvail' = rm.rd.avail
           /\ lastMsg' = rm.msg
           /\ lastErr' = rm.err
           /\ log' = log \o readMessageEvents(rm.err)
    /\ pc' = "readMessage returned"
    /\ UNCHANGED << outcome, exitCode, inputFile, file, fileChanges,
                    statSize, fileOpen, connOpen, connBroken, wbuf,
                    wire, srvStatus, srvReply, faulted, state, stateErr,
                    trace >>

\* state, err := getState(r)
CallGetState ==
    /\ pc = "call"
    /\ CanRead
    /\ LET gs == getState(Len(srvOut))
       IN  /\ rbuf' = gs.rm.rd.rbuf
           /\ srvOut' = gs.rm.rd.srvOut
           /\ reads' = reads + 1
           /\ lastAvail' = gs.rm.rd.avail
           /\ lastMsg' = gs.rm.msg
           /\ lastErr' = gs.rm.err
           /\ state' = gs.state
           /\ stateErr' = gs.err
           /\ log' = IF gs.err # "nil"
                     THEN Append(log, ErrorEvent(gs.log))
                     ELSE log
    /\ pc' = "getState returned"
    /\ UNCHANGED << outcome, exitCode, inputFile, file, fileChanges,
                    statSize, fileOpen, connOpen, connBroken, wbuf,
                    wire, srvStatus, srvReply, faulted, trace >>

\* a later msg, err := readMessage(r) on the same bufio.Reader
CallReadMessageAgain ==
    /\ pc = "readMessage returned"
    /\ CanRead
    /\ LET rm == readMessage(Len(srvOut))
       IN  /\ rbuf' = rm.rd.rbuf
           /\ srvOut' = rm.rd.srvOut
           /\ reads' = reads + 1
           /\ lastAvail' = rm.rd.avail
           /\ lastMsg' = rm.msg
           /\ lastErr' = rm.err
           /\ log' = log \o readMessageEvents(rm.err)
    /\ pc' = "readMessage returned twice"
    /\ UNCHANGED << outcome, exitCode, inputFile, file, fileChanges,
                    statSize, fileOpen, connOpen, connBroken, wbuf,
                    wire, srvStatus, srvReply, faulted, state, stateErr,
                    trace >>

FnNext == CallReadMessage \/ CallGetState \/ CallReadMessageAgain

FnSpec == FnInit /\ [][FnNext]_vars

----------------------------------------------------------------------------
(* Properties *)

\* everything the client has written to w, flushed or not
ClientStream == wire \o wbuf

FullSequence == <<"status", "header", "copy", "term", "flush", "ack">>

InTrace(step) == \E i \in 1..Len(trace) : trace[i] = step

\* C1: the transfer ends in Done only if the status parsed to init, the
\* header write, the copy, the terminator write and the flush succeeded and
\* the acknowledgement frame read after them is exactly GCODE_ACK; a run
\* that got past the flush and read any other acknowledgement ends Aborted.
C1_DoneOnlyAfterFullSequence ==
    /\ outcome = "Done" =>
         /\ state = StrInit /\ stateErr = "nil"
         /\ trace = FullSequence
         /\ lastErr = "nil" /\ lastMsg = StrGcodeAck
    /\ (pc = "exited" /\ InTrace("flush") /\ lastMsg # StrGcodeAck) =>
         outcome = "Aborted"

\* a transfer that went through all six steps and ended in Done
C1_Witness ==
    /\ pc = "exited" /\ outcome = "Done" /\ srvReply = "ack"
    /\ lastMsg = StrGcodeAck

\* C2: as long as no status equal to init has been received, the client has
\* written nothing: neither w nor the connection holds a byte of it.
C2_NoWriteBeforeInit ==
    (state # StrInit \/ stateErr # "nil") => (wire = <<>> /\ wbuf = <<>>)

\* the client was told "running" and gave up
C2_Witness ==
    /\ pc = "exited" /\ outcome = "Aborted"
    /\ stateErr = "nil" /\ state = <<"r","u","n","n","i","n","g">>
    /\ ClientStream = <<>>

\* C3: with a server that sends the ready line, takes every write and
\* answers GCODE_ACK once it holds payload and terminator, and with nothing
\* else going wrong, a transfer that ends ends in Done, however the
\* server's bytes arrive.
C3_ReadyServerEndsInDone ==
    ( /\ pc = "exited"
      /\ srvStatus = "init" /\ srvReply \in {"none", "ack"}
      /\ ~faulted /\ fileChanges = 0 )
    => outcome = "Done"

\* C4: when main reaches the terminator write, the payload bytes written
\* after the header line are as many as the header declares.
C4_PayloadLengthIsDeclared ==
    pc = "term" =>
        Len(ClientStream) - IndexOf(ClientStream, terminationCharacter)
          = DeclaredSize(ClientStream)

\* C5: a transfer that ends Aborted ends the process with a non-zero exit
\* status, and exit status zero means Done.
C5_FailureExitsNonZero ==
    /\ (pc = "exited" /\ outcome = "Aborted") => exitCode # 0
    /\ (pc = "exited" /\ exitCode = 0) => outcome = "Done"

\* C6: once main has exited after the connection was opened (and the file
\* before it), neither the connection nor the file is still open.
C6_ExitClosesBoth ==
    (pc = "exited" /\ srvStatus # "none") => (~connOpen /\ ~fileOpen)

\* main gave up while waiting for the acknowledgement, with both closed
C6_Witness ==
    /\ pc = "exited" /\ outcome = "Aborted" /\ InTrace("flush")
    /\ ~connOpen /\ ~fileOpen

----------------------------------------------------------------------------
(* Properties of readMessage and getState *)

HasTerminator(s) == \E i \in 1..Len(s) : s[i] = terminationCharacter

\* C7: when the stream readMessage reads holds fewer than messageBufferSize
\* bytes followed by a termination character, readMessage returns exactly
\* those bytes and no error.
C7_FrameIsBytesBeforeTerminator ==
    \A k \in 1..Len(lastAvail) :
        ( /\ reads > 0
          /\ lastAvail[k] = terminationCharacter
          /\ \A j \in 1..(k-1) : lastAvail[j] # terminationCharacter
          /\ k - 1 < messageBufferSize )
        => ( /\ lastErr = "nil"
             /\ Len(lastMsg) = k - 1
             /\ \A j \in 1..(k-1) : lastMsg[j] = lastAvail[j] )

\* the longest frame there is: 127 bytes and the terminator
C7_Witness ==
    /\ pc = "readMessage returned"
    /\ Len(lastAvail) = messageBufferSize
    /\ lastAvail[messageBufferSize] = terminationCharacter
    /\ lastErr = "nil" /\ Len(lastMsg) = messageBufferSize - 1

\* C8: when the stream readMessage reads holds messageBufferSize bytes or
\* more and no termination character, readMessage fails with "oversized
\* message" and returns no content.
C8_NoTerminatorIsOversized ==
    ( /\ reads > 0
      /\ Len(lastAvail) >= messageBufferSize
      /\ ~HasTerminator(lastAvail) )
    => (lastErr = "oversized message" /\ lastMsg = <<>>)

\* exactly messageBufferSize bytes without terminator were refused
C8_Witness ==
    /\ pc = "readMessage returned"
    /\ Len(lastAvail) = messageBufferSize /\ ~HasTerminator(lastAvail)
    /\ lastErr = "oversized message" /\ lastMsg = <<>>

\* the status line getState was given: key, one space, then the token with
\* white space around it
IsStateForm(line) ==
    /\ Len(line) > 7
    /\ ToLower(SubSeq(line, 1, 6)) = <<"s","t","a","t","e",":">>
    /\ line[7] = " "
    /\ TrimSpace(SubSeq(line, 8, Len(line))) # <<>>
    /\ \A i \in 1..Len(TrimSpace(SubSeq(line, 8, Len(line)))) :
           TrimSpace(SubSeq(line, 8, Len(line)))[i] \notin SpaceChars

\* the token of such a line, lower-cased
TokenOf(line) == ToLower(TrimSpace(SubSeq(line, 8, Len(line))))

SpacesIn(line) == Cardinality({i \in 1..Len(line) : line[i] = " "})

\* C9 as stated: for every line STATE: <token>, the key in any letter case
\* and any white space, space characters included, around the token,
\* getState returns the token lower-cased and trimmed, and no error.
C9_AnyWhitespaceAroundToken ==
    (pc = "getState returned" /\ lastErr = "nil" /\ IsStateForm(lastMsg))
    => (stateErr = "nil" /\ state = TokenOf(lastMsg))

\* C9 as the code has it: the same, for lines whose only space character is
\* the one after the key (tabs and carriage returns may surround the token).
C9_NoOtherSpaceAroundToken ==
    ( /\ pc = "getState returned" /\ lastErr = "nil"
      /\ IsStateForm(lastMsg) /\ SpacesIn(lastMsg) = 1 )
    => (stateErr = "nil" /\ state = TokenOf(lastMsg))

\* a lower-case key, an upper-case token and a tab and a carriage return
\* around it gave "init"
C9_Witness ==
    /\ pc = "getState returned"
    /\ lastMsg = <<"s","t","a","t","e",":"," ","\t","I","N","I","T","\r">>
    /\ stateErr = "nil" /\ state = StrInit

\* C10: a framed line that does not split on the space character into
\* exactly two tokens, or whose first token is not STATE: in some letter
\* case, makes getState fail with "invalid status message" and return no
\* state.
C10_MalformedStatusIsRejected ==
    ( /\ pc = "getState returned" /\ lastErr = "nil"
      /\ \/ SpacesIn(lastMsg) # 1
         \/ ToLower(SubSeq(lastMsg, 1, IndexOf(lastMsg, " ") - 1))
              # <<"s","t","a","t","e",":">> )
    => (stateErr = "invalid status message" /\ state = <<>>)

\* a line of three tokens with the right key was refused
C10_Witness ==
    /\ pc = "getState returned" /\ lastErr = "nil"
    /\ lastMsg = <<"S","T","A","T","E",":"," ","i","n","i","t"," ">>
    /\ stateErr = "invalid status message" /\ state = <<>>

----------------------------------------------------------------------------
(* Properties of the transfer, continued *)

\* the status line the server sent, while the status read is the only read
\* made and the server has sent nothing after it: what the read took and
\* what it left
StatusLineSent == lastAvail \o rbuf \o srvOut

\* C11: when the server's status line is longer than messageBufferSize and
\* has no terminator, and nothing else goes wrong, the status read ends in
\* "oversized message" and the client aborts with nothing written, however
\* many of the line's bytes have arrived when the read returns.
C11_LongStatusIsOversizedAbort ==
    ( /\ reads = 1 /\ srvReply = "none" /\ ~faulted
      /\ lastErr # "read error"
      /\ Len(StatusLineSent) > messageBufferSize
      /\ ~HasTerminator(StatusLineSent) )
    => ( /\ lastErr = "oversized message"
         /\ outcome = "Aborted"
         /\ ClientStream = <<>> )

HasErrorEvent == \E i \in 1..Len(log) : log[i].level = "error"

HasDoneEvent == \E i \in 1..Len(log) : log[i] = InfoEvent("done")

\* C12: a transfer that ended Aborted has logged at least one error event,
\* also where main itself returns without logging (the status read or parse
\* failed, the acknowledgement read failed), and has not logged "done".
C12_AbortIsLogged ==
    (pc = "exited" /\ outcome = "Aborted") =>
        (HasErrorEvent /\ ~HasDoneEvent)

\* the acknowledgement read failed: main returned at line 116 and the only
\* error event is readMessage's
C12_Witness ==
    /\ pc = "exited" /\ outcome = "Aborted"
    /\ reads = 2 /\ lastErr = "read error"
    /\ log = << InfoEvent("sending gcode file"),
                ErrorEvent("failed to read message") >>

\* how many protocol steps lie behind main when it stands at a position
StepsBefore(position) ==
    CASE position \in {"resolve", "stat", "open", "dial", "getState"} -> 0
      [] position \in {"checkState", "header"} -> 1
      [] position = "copy"  -> 2
      [] position = "term"  -> 3
      [] position = "flush" -> 4
      [] position = "ack"   -> 5

\* C13: the steps that have succeeded are always an initial part of: read
\* status, write header, copy payload, write terminator, flush, read
\* acknowledgement; main stands right behind the last of them; Done comes
\* after all six; and no second read (the acknowledgement read) is made
\* before the flush has succeeded.
C13_StepsInOrder ==
    /\ Len(trace) <= Len(FullSequence)
    /\ trace = SubSeq(FullSequence, 1, Len(trace))
    /\ pc # "exited" => Len(trace) = StepsBefore(pc)
    /\ outcome = "Done" => trace = FullSequence
    /\ reads <= 2
    /\ reads = 2 => (Len(trace) >= 5 /\ trace[5] = "flush")

\* main waits for the acknowledgement with the five steps before it done
C13_Witness ==
    /\ pc = "ack" /\ reads = 1
    /\ trace = <<"status", "header", "copy", "term", "flush">>
    /\ wbuf = <<>> /\ wire # <<>>

\* C14: once the transfer has ended, Done or Aborted, main has left and
\* stays so: the outcome does not change, nothing more is read from or
\* written to the connection, and no step is made again.
C14_OutcomeIsFinal ==
    [][ outcome # "none" =>
          /\ pc = "exited" /\ pc' = "exited"
          /\ outcome' = outcome
          /\ UNCHANGED << reads, rbuf, srvOut, wbuf, wire, trace >> ]_vars

\* main gave up after the header went out, with bytes of the server still
\* unread
C14_Witness ==
    /\ pc = "exited" /\ outcome = "Aborted"
    /\ InTrace("header") /\ srvOut # <<>>

----------------------------------------------------------------------------
(* Properties of readMessage, continued *)

\* the bytes the last r.Read put into readMessage's buffer
LastData == SubSeq(lastAvail, 1, Min(messageBufferSize, Len(lastAvail)))

\* C15: a frame readMessage returns without error is the bytes before a
\* termination character that is among the bytes it read; bytes without a
\* termination character are never returned as a frame.
C15_FrameEndsAtTerminator ==
    (reads > 0 /\ lastErr = "nil") =>
        /\ HasTerminator(LastData)
        /\ lastMsg = SubSeq(LastData, 1,
                            IndexOf(LastData, terminationCharacter) - 1)

\* C16: one call of readMessage makes one read and consumes exactly the
\* bytes that read returned, at most messageBufferSize of them: the stream
\* afterwards is the stream before without those bytes, the frame is taken
\* from those bytes only, and what follows the terminator inside them is
\* dropped, so a later call starts after them.
C16_CallConsumesItsRead ==
    [][ (reads' # reads /\ lastErr' # "read error") =>
          LET stream == rbuf \o srvOut
              n      == Len(LastData')
          IN  /\ reads' = reads + 1
              /\ n >= 1
              /\ n <= messageBufferSize
              /\ LastData' = SubSeq(stream, 1, n)
              /\ rbuf' \o srvOut' = SubSeq(stream, n+1, Len(stream))
              /\ lastErr' = "nil" =>
                    /\ Len(lastMsg') <= n
                    /\ lastMsg' = SubSeq(stream, 1, Len(lastMsg'))
                    /\ ~HasTerminator(lastMsg')
                    /\ Len(lastMsg') < n =>
                          stream[Len(lastMsg') + 1] = terminationCharacter
      ]_vars

\* The first call read 128 bytes holding a status line and 116 more bytes;
\* the later call returned the acknowledgement that lay beyond them.
C16_Witness ==
    /\ pc = "readMessage returned twice"
    /\ reads = 2
    /\ lastErr = "nil"
    /\ lastMsg = StrGcodeAck
    /\ rbuf = <<>>
    /\ srvOut = <<>>

IsPrefix(a, b) == Len(a) <= Len(b) /\ a = SubSeq(b, 1, Len(a))

\* C17: what the client has written after the header line is the file's
\* content, every byte in order and unescaped; one terminator follows it
\* and only after the whole content was copied without error. Until the
\* copy has succeeded the client's bytes are a prefix of header and content.
C17_PayloadIsFileThenOneTerminator ==
    IF ~InTrace("header")
    THEN ClientStream = <<>>
    ELSE LET header == HeaderOf(inputFile, statSize)
         IN  /\ IsPrefix(header, ClientStream)
             /\ InTrace("term") =>
                   ClientStream = header \o file \o <<terminationCharacter>>
             /\ (InTrace("copy") /\ ~InTrace("term")) =>
                   ClientStream = header \o file
             /\ ~InTrace("copy") =>
                   IsPrefix(ClientStream, header \o file)

\* A finished transfer of the ten-byte file, which holds line-feeds itself.
C17_Witness ==
    /\ outcome = "Done"
    /\ Len(file) = 10
    /\ HasTerminator(SubSeq(file, 1, Len(file) - 1))
    /\ wbuf = <<>>
    /\ wire = HeaderOf(inputFile, statSize) \o file
                 \o <<terminationCharacter>>

NothingToRead == rbuf = <<>> /\ srvOut = <<>> /\ ~connBroken

\* C18: no read has a timeout. While the client waits for the status
\* frame or for the acknowledgement and there is nothing to read (the
\* server has sent nothing unread and the connection has not failed), no
\* step of the client happens: it stays at that read, its outcome stays
\* undecided and nothing is read or written. Only the server sending or
\* the connection failing ends the wait.
C18_BlockedReadStaysBlocked ==
    [][ (pc \in {"getState", "ack"} /\ NothingToRead) =>
          /\ pc' = pc
          /\ outcome' = "none"
          /\ UNCHANGED << reads, wbuf, wire, trace, log, connOpen, fileOpen >>
          /\ (srvOut' # srvOut \/ connBroken' # connBroken
                \/ UNCHANGED << rbuf, srvOut, connBroken >>)
      ]_vars

\* Flushed, waiting for the acknowledgement, and the server silent.
C18_Witness ==
    /\ pc = "ack"
    /\ outcome = "none"
    /\ InTrace("flush")
    /\ wbuf = <<>>
    /\ srvReply = "none"
    /\ NothingToRead

\* the bytes of the line the read found, up to its terminator if it has one
LineContent(bytes) ==
    IF HasTerminator(bytes)
    THEN SubSeq(bytes, 1, IndexOf(bytes, terminationCharacter) - 1)
    ELSE bytes

\* C19: a frame readMessage returns without error is shorter than
\* messageBufferSize, 127 bytes at most; when the line its read found has
\* 128 bytes or more before the terminator, readMessage fails with the
\* oversized-message error and returns nothing, neither the line nor a
\* part of it.
C19_FrameShorterThanBuffer ==
    /\ (reads > 0 /\ lastErr = "nil") =>
          Len(lastMsg) <= messageBufferSize - 1
    /\ ( /\ reads > 0
         /\ lastErr # "read error"
         /\ Len(LineContent(lastAvail)) >= messageBufferSize )
       => (lastErr = "oversized message" /\ lastMsg = <<>>)

\* a line of exactly 128 bytes and its terminator was refused
C19_Witness ==
    /\ pc = "readMessage returned"
    /\ HasTerminator(lastAvail)
    /\ Len(LineContent(lastAvail)) = messageBufferSize
    /\ lastErr = "oversized message"
    /\ lastMsg = <<>>

====
